---- MODULE Spec2Model ----
(***************************************************************************)
(* Model of release_tools/bump_version.py: the version arithmetic, the     *)
(* milestone lookup, the templated rewrite of the tracked files and the    *)
(* change log patch, as one sequential run of bump_version().              *)
(*                                                                         *)
(* Text is a sequence of tokens (strings): a number, ".", or a lower-case  *)
(* word.  A file is a sequence of lines; a line is a record [ctx, val]     *)
(* where ctx names the literal text around the place a template captures   *)
(* and val is the token text found at that place.                          *)
(***************************************************************************)
EXTENDS Integers, Sequences, FiniteSets, TLC

\* ---------------------------------------------------------------- bounds
MaxComp == 1
MaxMilestones == 2

\* ------------------------------------------------- tokens and numbers
\* decimal spelling of the numbers the model uses: NumTok[n + 1] is str(n)
NumTok == <<"0", "1", "2", "3", "4", "5", "6", "7", "8", "9", "10", "11", "12">>

IsNum(tok) == \E i \in 1..Len(NumTok) : NumTok[i] = tok

ToNum(tok) == (CHOOSE i \in 1..Len(NumTok) : NumTok[i] = tok) - 1

NumStr(n) == NumTok[n + 1]

At(t, i) == IF i \in 1..Len(t) THEN t[i] ELSE ""

\* number of characters of a token / of a text
CharLen(tok) ==
  CASE tok \in {"10", "11", "12", "rc"} -> 2
    [] tok \in {"dev", "rev", "pre"} -> 3
    [] tok \in {"post", "beta"} -> 4
    [] tok = "_ - " -> 4
    [] tok = "alpha" -> 5
    [] tok \in {"2023-02-11", "2024-01-01"} -> 10
    [] tok = "preview" -> 7
    [] OTHER -> 1

RECURSIVE TextLen(_)
TextLen(t) == IF t = <<>> THEN 0 ELSE CharLen(Head(t)) + TextLen(Tail(t))

\* ------------------------------------------- packaging.version.Version
PreWords == {"a", "b", "c", "rc", "alpha", "beta", "pre", "preview"}
PostWords == {"post", "rev", "r"}
DevWords == {"dev"}

\* the value standing for "no version": parsing failed
NoVersion == [release |-> <<>>, pre_l |-> "", pre_n |-> 0, post |-> -1, dev |-> -1]

NormPre(w) ==
  CASE w \in {"a", "alpha"} -> "a"
    [] w \in {"b", "beta"} -> "b"
    [] OTHER -> "rc"

RECURSIVE RelEnd(_, _)
RelEnd(t, i) ==
  IF At(t, i + 1) = "." /\ IsNum(At(t, i + 2)) THEN RelEnd(t, i + 2) ELSE i

\* one optional segment  [.]word[N]  starting at position p
Seg(t, p, words) ==
  LET q == IF At(t, p) = "." /\ At(t, p + 1) \in words THEN p + 1 ELSE p
  IN IF At(t, q) \in words
       THEN IF IsNum(At(t, q + 1))
              THEN [found |-> TRUE, word |-> t[q], n |-> ToNum(t[q + 1]), next |-> q + 2]
              ELSE [found |-> TRUE, word |-> t[q], n |-> 0, next |-> q + 1]
       ELSE [found |-> FALSE, word |-> "", n |-> 0, next |-> p]

\* Version(text): the parsed version, NoVersion where packaging raises
\* InvalidVersion
ParseVersion(t) ==
  LET s == IF At(t, 1) = "v" THEN 2 ELSE 1
  IN IF ~IsNum(At(t, s)) THEN NoVersion
     ELSE LET e == RelEnd(t, s)
              pre == Seg(t, e + 1, PreWords)
              post == Seg(t, pre.next, PostWords)
              dev == Seg(t, post.next, DevWords)
          IN IF dev.next # Len(t) + 1 THEN NoVersion
             ELSE [release |-> [k \in 1..((e - s) \div 2 + 1) |-> ToNum(t[s + 2 * (k - 1)])],
                   pre_l |-> IF pre.found THEN NormPre(pre.word) ELSE "",
                   pre_n |-> pre.n,
                   post |-> IF post.found THEN post.n ELSE -1,
                   dev |-> IF dev.found THEN dev.n ELSE -1]

RECURSIVE ReleaseStr(_)
ReleaseStr(r) ==
  IF Len(r) = 1 THEN <<NumStr(r[1])>>
  ELSE ReleaseStr(SubSeq(r, 1, Len(r) - 1)) \o <<".", NumStr(r[Len(r)])>>

\* str(version): the normalised spelling
VersionStr(v) ==
  ReleaseStr(v.release)
    \o (IF v.pre_l # "" THEN <<v.pre_l, NumStr(v.pre_n)>> ELSE <<>>)
    \o (IF v.post >= 0 THEN <<".", "post", NumStr(v.post)>> ELSE <<>>)
    \o (IF v.dev >= 0 THEN <<".", "dev", NumStr(v.dev)>> ELSE <<>>)

is_devrelease(v) == v.dev >= 0

is_prerelease(v) == v.pre_l # "" \/ v.dev >= 0

RECURSIVE StripZeros(_)
StripZeros(r) ==
  IF r # <<>> /\ r[Len(r)] = 0 THEN StripZeros(SubSeq(r, 1, Len(r) - 1)) ELSE r

PreRank(v) ==
  CASE v.pre_l = "a" -> 1
    [] v.pre_l = "b" -> 2
    [] v.pre_l = "rc" -> 3
    [] v.pre_l = "" /\ v.post < 0 /\ v.dev >= 0 -> 0
    [] OTHER -> 4

\* the comparison key of a version (epoch and local part cannot occur in
\* text matched by [\d\.a-z]+)
CmpKey(v) ==
  [rel |-> StripZeros(v.release),
   rest |-> <<PreRank(v), v.pre_n, v.post, IF v.dev >= 0 THEN 0 ELSE 1, v.dev>>]

SeqLess(a, b) ==
  \E i \in 1..(Len(b)) :
    /\ \A j \in 1..(i - 1) : j <= Len(a) /\ a[j] = b[j]
    /\ (i > Len(a) \/ a[i] < b[i])

VersionLess(v, w) ==
  LET a == CmpKey(v)
      b == CmpKey(w)
  IN SeqLess(a.rel, b.rel) \/ (a.rel = b.rel /\ SeqLess(a.rest, b.rest))

VersionEq(v, w) == CmpKey(v) = CmpKey(w)

\* ------------------------------------------------------------ PATTERNS
VERSION_PY_PATH == "src/darker/version.py"

CHANGES_PATH == "CHANGES.rst"

\* a pattern template: ctx is its literal text, src -> dst its placeholder,
\* closed tells whether literal text follows the placeholder
Tpl(ctx, src, dst, closed) == [ctx |-> ctx, src |-> src, dst |-> dst, closed |-> closed]

PATTERNS ==
  << [path |-> VERSION_PY_PATH,
      templates |-> {Tpl("__version__", "old_version", "new_version", TRUE)}],
     [path |-> "action.yml",
      templates |-> {Tpl("description", "old_version", "new_version", TRUE),
                     Tpl("default", "old_version", "new_version", TRUE),
                     Tpl("uses_commit_range", "old_version", "new_version", FALSE)}],
     [path |-> "README.rst",
      templates |-> {Tpl("rev11", "old_version", "new_version", FALSE),
                     Tpl("rev7", "old_version", "new_version", FALSE),
                     Tpl("uses_darker", "old_version", "new_version", FALSE),
                     Tpl("version", "old_version", "new_version", TRUE),
                     Tpl("label", "new_version", "next_version", FALSE),
                     Tpl("milestone_image", "new_milestone", "next_milestone", FALSE),
                     Tpl("milestone_link", "new_milestone", "next_milestone", FALSE)}],
     [path |-> ".github/ISSUE_TEMPLATE/bug_report.md",
      templates |-> {Tpl("darker_version", "old_version", "new_version", TRUE)}] >>

TrackedPaths == {PATTERNS[i].path : i \in 1..Len(PATTERNS)}

Paths == TrackedPaths \cup {CHANGES_PATH}

Line(ctx, val) == [ctx |-> ctx, val |-> val]

\* ------------------------------------------------------- regular expressions
\* a compiled pattern is a sequence of atoms: a literal token or "."
Lit(tok) == [kind |-> "lit", tok |-> tok]

AnyChar == [kind |-> "any", tok |-> ""]

\* re.escape(text) read as a regex: every token is matched literally
re_escape(t) == [i \in 1..Len(t) |-> Lit(t[i])]

\* text used as a regex without escaping: "." matches any one character
RawRegex(t) == [i \in 1..Len(t) |-> IF t[i] = "." THEN AnyChar ELSE Lit(t[i])]

AtomMatches(a, tok) == IF a.kind = "lit" THEN a.tok = tok ELSE CharLen(tok) = 1

\* the resolved regex of a template matches this line
LineMatches(tpl, pat, line) ==
  /\ line.ctx = tpl.ctx
  /\ Len(pat) <= Len(line.val)
  /\ \A i \in 1..Len(pat) : AtomMatches(pat[i], line.val[i])
  /\ tpl.closed => Len(line.val) = Len(pat)

\* a search that reports the last matching line instead of the first
re_search_last(tpl, pat, text) ==
  IF \E i \in 1..Len(text) : LineMatches(tpl, pat, text[i])
    THEN CHOOSE i \in 1..Len(text) :
           /\ LineMatches(tpl, pat, text[i])
           /\ \A j \in (i + 1)..Len(text) : ~LineMatches(tpl, pat, text[j])
    ELSE 0

\* re.search(pattern, content, flags=re.MULTILINE): the first matching
\* line, 0 if there is none
re_search(tpl, pat, text) ==
  IF \E i \in 1..Len(text) : LineMatches(tpl, pat, text[i])
    THEN CHOOSE i \in 1..Len(text) :
           /\ LineMatches(tpl, pat, text[i])
           /\ \A j \in 1..(i - 1) : ~LineMatches(tpl, pat, text[j])
    ELSE 0

MatchCount(tpl, pat, text) ==
  Cardinality({i \in 1..Len(text) : LineMatches(tpl, pat, text[i])})

\* replace_span(match.span(1), replacement, content): the captured group
\* of line i, n tokens long, is replaced
replace_span(i, n, replacement, text) ==
  [text EXCEPT ![i].val = replacement \o SubSeq(text[i].val, n + 1, Len(text[i].val))]

\* CURRENT_VERSION_RE: ^__version__ *= *"([\d\.a-z]+)"
InClass(tok) == tok \notin {"+", "!", "-"}

CurrentVersionMatches(line) ==
  /\ line.ctx = "__version__"
  /\ line.val # <<>>
  /\ \A i \in 1..Len(line.val) : InClass(line.val[i])

CURRENT_VERSION_RE_search(text) ==
  IF \E i \in 1..Len(text) : CurrentVersionMatches(text[i])
    THEN CHOOSE i \in 1..Len(text) :
           /\ CurrentVersionMatches(text[i])
           /\ \A j \in 1..(i - 1) : ~CurrentVersionMatches(text[j])
    ELSE 0

\* ------------------------------------------------------------- milestones
\* a dict is a sequence of entries [k, v] in insertion order, its keys
\* pairwise different under VersionEq
DictHas(d, key) == \E i \in 1..Len(d) : VersionEq(d[i].k, key)

DictGet(d, key) == d[CHOOSE i \in 1..Len(d) : VersionEq(d[i].k, key)].v

DictSet(d, key, val) ==
  IF DictHas(d, key)
    THEN [i \in 1..Len(d) |-> IF VersionEq(d[i].k, key) THEN [k |-> d[i].k, v |-> val] ELSE d[i]]
    ELSE Append(d, [k |-> key, v |-> val])

RECURSIVE BuildDict(_)
BuildDict(ms) ==
  IF ms = <<>> THEN <<>>
  ELSE LET m == ms[Len(ms)]
       IN DictSet(BuildDict(SubSeq(ms, 1, Len(ms) - 1)), ParseVersion(m.title), NumStr(m.number))

\* sorted(keys): insertion sort, stable
RECURSIVE Insert(_, _)
Insert(s, x) ==
  IF s = <<>> THEN <<x>>
  ELSE IF VersionLess(x, Head(s)) THEN <<x>> \o s
  ELSE <<Head(s)>> \o Insert(Tail(s), x)

RECURSIVE sorted(_)
sorted(ks) == IF ks = <<>> THEN <<>> ELSE Insert(sorted(SubSeq(ks, 1, Len(ks) - 1)), ks[Len(ks)])

DictKeys(d) == [i \in 1..Len(d) |-> d[i].k]

\* a scan that also accepts a key equal to the version
RECURSIVE FirstGreaterOrEqual(_, _)
FirstGreaterOrEqual(s, version) ==
  IF s = <<>> THEN NoVersion
  ELSE IF ~VersionLess(Head(s), version) THEN Head(s)
  ELSE FirstGreaterOrEqual(Tail(s), version)

RECURSIVE FirstGreater(_, _)
FirstGreater(s, version) ==
  IF s = <<>> THEN NoVersion
  ELSE IF VersionLess(version, Head(s)) THEN Head(s)
  ELSE FirstGreater(Tail(s), version)

\* get_next_milestone_version: NoVersion where it raises RuntimeError
get_next_milestone_version(version, numbers) ==
  FirstGreater(sorted(DictKeys(numbers)), version)

\* ------------------------------------------------------ version arithmetic
\* the arithmetic with the minor flag tested before the major flag
get_next_version_minor_first(current_version, inc_major, inc_minor) ==
  IF Len(current_version.release) # 3 THEN NoVersion
  ELSE LET major == current_version.release[1]
           minor == current_version.release[2]
           micro == current_version.release[3]
       IN IF inc_minor
            THEN ParseVersion(<<NumStr(major), ".", NumStr(minor + 1), ".", "0">>)
          ELSE IF inc_major
            THEN ParseVersion(<<NumStr(major + 1), ".", "0", ".", "0">>)
          ELSE IF is_devrelease(current_version) \/ is_prerelease(current_version)
            THEN current_version
          ELSE ParseVersion(<<NumStr(major), ".", NumStr(minor), ".", NumStr(micro + 1)>>)

\* get_next_version: NoVersion where the unpacking of .release raises
get_next_version(current_version, inc_major, inc_minor) ==
  IF Len(current_version.release) # 3 THEN NoVersion
  ELSE LET major == current_version.release[1]
           minor == current_version.release[2]
           micro == current_version.release[3]
       IN IF inc_major
            THEN ParseVersion(<<NumStr(major + 1), ".", "0", ".", "0">>)
          ELSE IF inc_minor
            THEN ParseVersion(<<NumStr(major), ".", NumStr(minor + 1), ".", "0">>)
          ELSE IF is_devrelease(current_version) \/ is_prerelease(current_version)
            THEN current_version
          ELSE ParseVersion(<<NumStr(major), ".", NumStr(minor), ".", NumStr(micro + 1)>>)

\* ------------------------------------------------------------ change log
\* "These features will be included in the next release:\n\n"
before_unreleased == Line("anchor", <<>>)

\* a lookup that answers the end of the text where the line is absent
index_or_end(text, line) ==
  IF \E i \in 1..Len(text) : text[i] = line
    THEN CHOOSE i \in 1..Len(text) : text[i] = line /\ \A j \in 1..(i - 1) : text[j] # line
    ELSE Len(text)

\* content.index(before_unreleased): the first occurrence, 0 where it raises
index(text, line) ==
  IF \E i \in 1..Len(text) : text[i] = line
    THEN CHOOSE i \in 1..Len(text) : text[i] = line /\ \A j \in 1..(i - 1) : text[j] # line
    ELSE 0

Title(version, today) == VersionStr(version) \o <<"_ - ", today>>

Underline(title) == [i \in 1..TextLen(title) |-> "="]

\* the new content patch_changelog builds for a change log holding the anchor
patch_changelog_content(next_version, today, text) ==
  LET insert_point == index(text, before_unreleased)
      before == SubSeq(text, 1, insert_point)
      after == SubSeq(text, insert_point + 1, Len(text))
      title == Title(next_version, today)
  IN before
       \o << Line("Added", <<>>), Line("-----", <<>>), Line("", <<>>),
             Line("Fixed", <<>>), Line("-----", <<>>), Line("", <<>>), Line("", <<>>),
             Line("title", title), Line("underline", Underline(title)), Line("", <<>>) >>
       \o after

\* ------------------------------------------------------------------ state
VARIABLES
  dry_run, increment_major, increment_minor,  \* the command line flags
  api,               \* the JSON the milestones endpoint answers
  disk,              \* path -> content of the file
  disk0,             \* the content of every file when the run started
  pc,                \* the statement bump_version() is at
  error,             \* the exception that ended the run
  old_version, new_version, next_version, milestone_numbers,
  patterns, replacements,
  file_idx,          \* position in PATTERNS.items()
  content,           \* the content of the file being rewritten
  remaining,         \* the templates of that file not applied yet
  stdout,            \* the banners printed by a dry run
  writes             \* the paths written so far, in order

env == <<dry_run, increment_major, increment_minor, api, disk0>>

loop == <<file_idx, content, remaining>>

io == <<disk, stdout, writes>>

vars == <<env, disk, pc, error, old_version, new_version, next_version,
          milestone_numbers, patterns, replacements, loop, stdout, writes>>

NoError == [exc |-> "", at |-> ""]

Raise(exc, at) == pc' = "error" /\ error' = [exc |-> exc, at |-> at]

NoDict == [old_version |-> <<>>, new_version |-> <<>>, new_milestone |-> <<>>]

NoReplacements == [new_version |-> <<>>, next_version |-> <<>>, next_milestone |-> <<>>]

\* ---------------------------------------------------------------- actions
GetCurrentVersion ==
  /\ pc = "get_current_version"
  /\ LET version_py == disk[VERSION_PY_PATH]
         m == CURRENT_VERSION_RE_search(version_py)
     IN IF m = 0
          THEN Raise("NoMatch", "get_current_version") /\ UNCHANGED old_version
        ELSE IF ParseVersion(version_py[m].val) = NoVersion
          THEN Raise("InvalidVersion", "get_current_version") /\ UNCHANGED old_version
        ELSE /\ old_version' = ParseVersion(version_py[m].val)
             /\ pc' = "get_next_version"
             /\ UNCHANGED error
  /\ UNCHANGED <<env, new_version, next_version, milestone_numbers, patterns,
                 replacements, loop, io>>

GetNextVersion ==
  /\ pc = "get_next_version"
  /\ LET v == get_next_version(old_version, increment_major, increment_minor)
     IN IF v = NoVersion
          THEN Raise("ValueError", "get_next_version") /\ UNCHANGED new_version
          ELSE new_version' = v /\ pc' = "get_milestone_numbers" /\ UNCHANGED error
  /\ UNCHANGED <<env, old_version, next_version, milestone_numbers, patterns,
                 replacements, loop, io>>

GetMilestoneNumbers ==
  /\ pc = "get_milestone_numbers"
  /\ IF ~api.is_list
       THEN Raise("TypeError", "get_milestone_numbers") /\ UNCHANGED milestone_numbers
     ELSE IF \E i \in 1..Len(api.items) : ParseVersion(api.items[i].title) = NoVersion
       THEN Raise("InvalidVersion", "get_milestone_numbers") /\ UNCHANGED milestone_numbers
     ELSE /\ milestone_numbers' = BuildDict(api.items)
          /\ pc' = "get_next_milestone_version"
          /\ UNCHANGED error
  /\ UNCHANGED <<env, old_version, new_version, next_version, patterns,
                 replacements, loop, io>>

GetNextMilestoneVersion ==
  /\ pc = "get_next_milestone_version"
  /\ LET v == get_next_milestone_version(new_version, milestone_numbers)
     IN IF v = NoVersion
          THEN Raise("RuntimeError", "get_next_milestone_version") /\ UNCHANGED next_version
          ELSE next_version' = v /\ pc' = "build_replacements" /\ UNCHANGED error
  /\ UNCHANGED <<env, old_version, new_version, milestone_numbers, patterns,
                 replacements, loop, io>>

BuildReplacements ==
  /\ pc = "build_replacements"
  /\ IF ~DictHas(milestone_numbers, new_version)
       THEN /\ Raise("KeyError", "get_replacements")
            /\ UNCHANGED <<patterns, replacements, file_idx>>
       ELSE /\ patterns' = [old_version |-> re_escape(VersionStr(old_version)),
                            new_version |-> re_escape(VersionStr(new_version)),
                            new_milestone |-> RawRegex(<<DictGet(milestone_numbers, new_version)>>)]
            /\ replacements' = [new_version |-> VersionStr(new_version),
                                next_version |-> VersionStr(next_version),
                                next_milestone |-> <<DictGet(milestone_numbers, next_version)>>]
            /\ file_idx' = 1
            /\ pc' = "read_file"
            /\ UNCHANGED error
  /\ UNCHANGED <<env, old_version, new_version, next_version, milestone_numbers,
                 content, remaining, io>>

ReadFile ==
  /\ pc = "read_file"
  /\ content' = disk[PATTERNS[file_idx].path]
  /\ remaining' = PATTERNS[file_idx].templates
  /\ pc' = "apply_templates"
  /\ UNCHANGED <<env, error, old_version, new_version, next_version,
                 milestone_numbers, patterns, replacements, file_idx, io>>

\* a loop turn that passes over a template without a match
ApplyTemplate_skips_no_match ==
  /\ pc = "apply_templates"
  /\ \E tpl \in remaining :
       LET current_pattern == patterns[tpl.src]
           replacement == replacements[tpl.dst]
           m == re_search(tpl, current_pattern, content)
       IN /\ content' = IF m = 0 THEN content
                        ELSE replace_span(m, Len(current_pattern), replacement, content)
          /\ remaining' = remaining \ {tpl}
          /\ UNCHANGED <<pc, error>>
  /\ UNCHANGED <<env, old_version, new_version, next_version, milestone_numbers,
                 patterns, replacements, file_idx, io>>

\* one turn of the loop over the templates of the file; a set is iterated
\* in an order the program does not control
ApplyTemplate ==
  /\ pc = "apply_templates"
  /\ \E tpl \in remaining :
       LET current_pattern == patterns[tpl.src]
           replacement == replacements[tpl.dst]
           m == re_search(tpl, current_pattern, content)
       IN IF tpl.src = "" \/ m = 0
            THEN Raise("NoMatch", "bump_version") /\ UNCHANGED <<content, remaining>>
            ELSE /\ content' = replace_span(m, Len(current_pattern), replacement, content)
                 /\ remaining' = remaining \ {tpl}
                 /\ UNCHANGED <<pc, error>>
  /\ UNCHANGED <<env, old_version, new_version, next_version, milestone_numbers,
                 patterns, replacements, file_idx, io>>

\* a loop that leaves for the change log after the first file
WriteFile_skips_rest ==
  /\ pc = "apply_templates"
  /\ remaining = {}
  /\ LET path_str == PATTERNS[file_idx].path
     IN IF dry_run
          THEN stdout' = Append(stdout, path_str) /\ UNCHANGED <<disk, writes>>
          ELSE /\ disk' = [disk EXCEPT ![path_str] = content]
               /\ writes' = Append(writes, path_str)
               /\ UNCHANGED stdout
  /\ IF file_idx < 1
       THEN file_idx' = file_idx + 1 /\ pc' = "read_file"
       ELSE pc' = "patch_changelog" /\ UNCHANGED file_idx
  /\ UNCHANGED <<env, error, old_version, new_version, next_version,
                 milestone_numbers, patterns, replacements, content, remaining>>

\* the end of the loop body of a file: print or write, then the next file
WriteFile ==
  /\ pc = "apply_templates"
  /\ remaining = {}
  /\ LET path_str == PATTERNS[file_idx].path
     IN IF dry_run
          THEN stdout' = Append(stdout, path_str) /\ UNCHANGED <<disk, writes>>
          ELSE /\ disk' = [disk EXCEPT ![path_str] = content]
               /\ writes' = Append(writes, path_str)
               /\ UNCHANGED stdout
  /\ IF file_idx < Len(PATTERNS)
       THEN file_idx' = file_idx + 1 /\ pc' = "read_file"
       ELSE pc' = "patch_changelog" /\ UNCHANGED file_idx
  /\ UNCHANGED <<env, error, old_version, new_version, next_version,
                 milestone_numbers, patterns, replacements, content, remaining>>

\* the days date.today() may answer
Dates == {"2023-02-11", "2024-01-01"}

\* a patch that writes the change log in a dry run too
PatchChangelog_ignores_dry_run ==
  /\ pc = "patch_changelog"
  /\ \E today \in Dates :
       LET text == disk[CHANGES_PATH]
       IN IF index(text, before_unreleased) = 0
            THEN Raise("ValueError", "patch_changelog") /\ UNCHANGED io
          ELSE /\ disk' = [disk EXCEPT ![CHANGES_PATH] =
                              patch_changelog_content(new_version, today, text)]
               /\ writes' = Append(writes, CHANGES_PATH)
               /\ UNCHANGED stdout
               /\ pc' = "done"
               /\ UNCHANGED error
  /\ UNCHANGED <<env, old_version, new_version, next_version, milestone_numbers,
                 patterns, replacements, loop>>

\* patch_changelog(new_version, dry_run)
PatchChangelog ==
  /\ pc = "patch_changelog"
  /\ \E today \in Dates :
       LET text == disk[CHANGES_PATH]
       IN IF index(text, before_unreleased) = 0
            THEN Raise("ValueError", "patch_changelog") /\ UNCHANGED io
          ELSE /\ IF dry_run
                    THEN stdout' = Append(stdout, CHANGES_PATH) /\ UNCHANGED <<disk, writes>>
                    ELSE /\ disk' = [disk EXCEPT ![CHANGES_PATH] =
                                       patch_changelog_content(new_version, today, text)]
                         /\ writes' = Append(writes, CHANGES_PATH)
                         /\ UNCHANGED stdout
               /\ pc' = "done"
               /\ UNCHANGED error
  /\ UNCHANGED <<env, old_version, new_version, next_version, milestone_numbers,
                 patterns, replacements, loop>>

\* ------------------------------------------------- the files of a run
V123 == <<"1", ".", "2", ".", "3">>

V124 == <<"1", ".", "2", ".", "4">>

V130 == <<"1", ".", "3", ".", "0">>

V200 == <<"2", ".", "0", ".", "0">>

\* what version.py may say
RunVersionTexts ==
  { V123,
    V123 \o <<"rc", "1">>,
    <<"1", ".", "2">>,
    <<"v">> \o V123,
    V123 \o <<"+", "x">>,
    <<"x">> }

VersionPyContents ==
  {<<Line("__version__", t)>> : t \in RunVersionTexts}
    \cup { <<Line("text", <<>>)>>,
           <<Line("__version__", V123), Line("text", <<>>), Line("__version__", V123)>> }

\* the order of the captured places in each tracked file
FileLayout(path) ==
  CASE path = "action.yml" -> <<"description", "default", "uses_commit_range">>
    [] path = "README.rst" -> <<"label", "milestone_image", "milestone_link", "rev11",
                                "rev7", "uses_darker", "version">>
    [] path = ".github/ISSUE_TEMPLATE/bug_report.md" -> <<"darker_version">>
    [] OTHER -> <<"__version__">>

TplOf(ctx) ==
  CHOOSE tpl \in UNION {PATTERNS[i].templates : i \in 1..Len(PATTERNS)} : tpl.ctx = ctx

\* a perturbation of one captured place: the line is missing, appears
\* twice, or has more text after the value
Perturbations ==
  {[kind |-> "none", ctx |-> ""]}
    \cup [kind : {"missing", "twice"},
          ctx : {"description", "default", "uses_commit_range", "label",
                 "milestone_image", "milestone_link", "rev11", "rev7",
                 "uses_darker", "version", "darker_version"}]
    \cup [kind : {"longer"}, ctx : {"uses_commit_range", "version", "milestone_link"}]

PlaceLines(ctx, val, pert) ==
  IF pert.ctx # ctx THEN <<Line(ctx, val)>>
  ELSE CASE pert.kind = "missing" -> <<>>
         [] pert.kind = "twice" -> <<Line(ctx, val), Line("text", <<>>), Line(ctx, val)>>
         [] OTHER -> <<Line(ctx, val \o <<"0">>)>>

RECURSIVE Places(_, _, _, _, _)
Places(layout, fv, lab, ms, pert) ==
  IF layout = <<>> THEN <<>>
  ELSE LET ctx == Head(layout)
           src == TplOf(ctx).src
           val == CASE src = "old_version" -> fv
                    [] src = "new_version" -> lab
                    [] OTHER -> <<ms>>
       IN PlaceLines(ctx, val, pert) \o Places(Tail(layout), fv, lab, ms, pert)

TrackedFile(path, fv, lab, ms, pert) ==
  <<Line("text", <<>>)>> \o Places(FileLayout(path), fv, lab, ms, pert)

ChangelogGood == <<Line("text", <<>>), before_unreleased, Line("text", <<"1">>)>>

ChangelogContents ==
  { ChangelogGood,
    <<Line("text", <<>>)>>,
    <<Line("anchor_without_blank_line", <<>>), Line("text", <<"1">>)>>,
    <<before_unreleased, Line("text", <<"1">>), before_unreleased, Line("text", <<"2">>)>>,
    <<>> }

\* the milestones of the tracker: title and number
Milestones ==
  { [title |-> V124, number |-> 1],
    [title |-> V130, number |-> 2],
    [title |-> V200, number |-> 3] }

LabelTexts == {V124, V130}

NumberOf(title) == (CHOOSE m \in Milestones : m.title = title).number

RECURSIVE SeqsOver(_, _)
SeqsOver(S, n) ==
  IF n = 0 THEN {<<>>}
  ELSE LET shorter == SeqsOver(S, n - 1)
       IN shorter \cup {Append(q, x) : q \in {r \in shorter : Len(r) = n - 1}, x \in S}

Distinct(q) == \A i, j \in 1..Len(q) : i # j => q[i] # q[j]

ApiResponses ==
  {[is_list |-> FALSE, items |-> <<>>],
   [is_list |-> TRUE, items |-> <<[title |-> <<"x">>, number |-> 1]>>]}
    \cup {[is_list |-> TRUE, items |-> q] : q \in {r \in SeqsOver(Milestones, MaxMilestones) : Distinct(r)}}

\* the text the tracked files hold where version.py holds t
FileVersionText(t) == IF ParseVersion(t) = NoVersion THEN V123 ELSE VersionStr(ParseVersion(t))

Start(pc0) ==
  /\ pc = pc0
  /\ error = NoError
  /\ disk0 = disk
  /\ old_version = NoVersion
  /\ next_version = NoVersion
  /\ patterns = NoDict
  /\ replacements = NoReplacements
  /\ file_idx = 0
  /\ content = <<>>
  /\ remaining = {}
  /\ stdout = <<>>
  /\ writes = <<>>

Init ==
  /\ dry_run \in BOOLEAN
  /\ increment_major \in BOOLEAN
  /\ increment_minor \in BOOLEAN
  /\ api \in ApiResponses
  /\ \E vpy \in VersionPyContents, lab \in LabelTexts, pert \in Perturbations,
        cl \in ChangelogContents :
       /\ pert.kind = "none" \/ cl = ChangelogGood
       /\ disk = [p \in Paths |->
                    IF p = VERSION_PY_PATH THEN vpy
                    ELSE IF p = CHANGES_PATH THEN cl
                    ELSE TrackedFile(p, FileVersionText(vpy[1].val), lab,
                                     NumStr(NumberOf(lab)), pert)]
  /\ new_version = NoVersion
  /\ milestone_numbers = <<>>
  /\ Start("get_current_version")

Next ==
  \/ GetCurrentVersion
  \/ GetNextVersion
  \/ GetMilestoneNumbers
  \/ GetNextMilestoneVersion
  \/ BuildReplacements
  \/ ReadFile
  \/ ApplyTemplate
  \/ WriteFile
  \/ PatchChangelog

Spec == Init /\ [][Next]_vars

\* ------------------------------------- the version arithmetic on its own
Suffixes ==
  { <<>>, <<"rc", "1">>, <<".", "dev", "0">>, <<"dev", "0">>, <<".", "post", "1">>,
    <<"a", "1", ".", "dev", "0">> }

RECURSIVE ReleaseTexts(_)
ReleaseTexts(n) ==
  IF n = 1 THEN {<<NumStr(c)>> : c \in 0..MaxComp}
  ELSE ReleaseTexts(n - 1)
         \cup {r \o <<".", NumStr(c)>> : r \in {q \in ReleaseTexts(n - 1) : Len(q) = 2 * n - 3},
                                       c \in 0..MaxComp}

\* every text version.py may hold that parses as a version
AllVersionTexts ==
  {r \o x : r \in ReleaseTexts(4), x \in Suffixes}
    \cup {<<"v">> \o r : r \in ReleaseTexts(3)}

InitVersion ==
  /\ dry_run = FALSE
  /\ increment_major \in BOOLEAN
  /\ increment_minor \in BOOLEAN
  /\ api = [is_list |-> TRUE, items |-> <<>>]
  /\ \E t \in AllVersionTexts :
       disk = [p \in Paths |->
                 IF p = VERSION_PY_PATH THEN <<Line("__version__", t)>>
                 ELSE IF p = CHANGES_PATH THEN ChangelogGood
                 ELSE TrackedFile(p, FileVersionText(t), V124, "1",
                                  [kind |-> "none", ctx |-> ""])]
  /\ new_version = NoVersion
  /\ milestone_numbers = <<>>
  /\ Start("get_current_version")

NextVersion ==
  \/ GetCurrentVersion
  \/ GetNextVersion

SpecVersion == InitVersion /\ [][NextVersion]_vars

\* ------------------------------------- the milestone lookup on its own
MilestoneVersions ==
  {ParseVersion(<<NumStr(a), ".", NumStr(b)>>) : a, b \in 0..MaxComp}
    \cup { ParseVersion(<<"1", ".", "0", ".", "0">>),
           ParseVersion(<<"1", ".", "1", "rc", "1">>),
           ParseVersion(<<"1", ".", "0", ".", "1">>) }

DistinctKeys(q) == \A i, j \in 1..Len(q) : i # j => ~VersionEq(q[i], q[j])

MilestoneDicts ==
  { [i \in 1..Len(q) |-> [k |-> q[i], v |-> NumStr(i)]] :
      q \in {r \in SeqsOver(MilestoneVersions, MaxMilestones) : DistinctKeys(r)} }

InitMilestone ==
  /\ dry_run = FALSE
  /\ increment_major = FALSE
  /\ increment_minor = FALSE
  /\ api = [is_list |-> TRUE, items |-> <<>>]
  /\ disk = [p \in Paths |->
               IF p = VERSION_PY_PATH THEN <<Line("__version__", V123)>>
               ELSE IF p = CHANGES_PATH THEN ChangelogGood
               ELSE TrackedFile(p, V123, V124, "1", [kind |-> "none", ctx |-> ""])]
  /\ new_version \in MilestoneVersions
  /\ milestone_numbers \in MilestoneDicts
  /\ Start("get_next_milestone_version")

NextMilestone == GetNextMilestoneVersion

SpecMilestone == InitMilestone /\ [][NextMilestone]_vars

\* ================================================================ claims
Plain(release) == [release |-> release, pre_l |-> "", pre_n |-> 0, post |-> -1, dev |-> -1]

\* component i of the release, 0 where the release is shorter
Comp(v, i) == IF i <= Len(v.release) THEN v.release[i] ELSE 0

\* get_next_version has been called on old_version and is over
NextVersionOver == old_version # NoVersion /\ pc # "get_next_version"

NotYetReleased(v) == v.pre_l # "" \/ v.dev >= 0

\* C1: for a current version with a three component release, the new
\* version is (major+1).0.0 if increment_major is set, whatever
\* increment_minor is; else major.(minor+1).0 if increment_minor is set;
\* else the current version itself if it is a pre-release or a development
\* release; else major.minor.(micro+1).
C1_PriorityRule ==
  (NextVersionOver /\ Len(old_version.release) = 3) =>
    LET major == old_version.release[1]
        minor == old_version.release[2]
        micro == old_version.release[3]
    IN new_version =
         IF increment_major THEN Plain(<<major + 1, 0, 0>>)
         ELSE IF increment_minor THEN Plain(<<major, minor + 1, 0>>)
         ELSE IF NotYetReleased(old_version) THEN old_version
         ELSE Plain(<<major, minor, micro + 1>>)

C1_Witness ==
  /\ pc = "get_milestone_numbers"
  /\ increment_major /\ increment_minor
  /\ NotYetReleased(old_version)
  /\ old_version.release[2] > 0
  /\ new_version.release = <<old_version.release[1] + 1, 0, 0>>

\* C2: for every version and every flag combination get_next_version
\* returns a version in which exactly one of major, minor, micro is
\* incremented and which is strictly greater than the current version, or
\* returns the current version unchanged when that is a pre-release or a
\* development release and neither flag is set.
C2_IncrementsOneAndGrows ==
  NextVersionOver =>
    /\ new_version # NoVersion
    /\ \/ /\ ~increment_major /\ ~increment_minor /\ NotYetReleased(old_version)
          /\ new_version = old_version
       \/ /\ \/ new_version.release = <<Comp(old_version, 1) + 1, 0, 0>>
             \/ new_version.release = <<Comp(old_version, 1), Comp(old_version, 2) + 1, 0>>
             \/ new_version.release = <<Comp(old_version, 1), Comp(old_version, 2),
                                        Comp(old_version, 3) + 1>>
          /\ VersionLess(old_version, new_version)

\* C3: get_next_version never raises, whatever version get_current_version
\* returned and whatever the flags.
C3_NeverRaises == ~(pc = "error" /\ error.at = "get_next_version")

Keys(d) == {d[i].k : i \in 1..Len(d)}

\* C4: get_next_milestone_version returns a key of the mapping that is
\* strictly greater than the version and not greater than any other such
\* key, never a key equal to the version; it raises exactly when the
\* mapping has no key strictly greater than the version (an empty mapping
\* included).
C4_MinimumStrictlyGreater ==
  /\ pc = "build_replacements" =>
       /\ next_version \in Keys(milestone_numbers)
       /\ VersionLess(new_version, next_version)
       /\ ~VersionEq(next_version, new_version)
       /\ \A k \in Keys(milestone_numbers) :
            VersionLess(new_version, k) => ~VersionLess(k, next_version)
  /\ pc = "error" =>
       /\ error = [exc |-> "RuntimeError", at |-> "get_next_milestone_version"]
       /\ \A k \in Keys(milestone_numbers) : ~VersionLess(new_version, k)
  /\ (pc # "get_next_milestone_version"
        /\ \E k \in Keys(milestone_numbers) : VersionLess(new_version, k)) =>
       pc = "build_replacements"

C4_Witness ==
  /\ pc = "build_replacements"
  /\ Len(milestone_numbers) >= 2
  /\ VersionEq(milestone_numbers[2].k, new_version)
  /\ milestone_numbers[1].k = next_version

\* C5: in a dry run no file is ever written: at every point of the run,
\* failed or not, every file has the content it had when the run started.
C5_DryRunWritesNothing == dry_run => (disk = disk0 /\ writes = <<>>)

C5_Witness ==
  /\ dry_run
  /\ pc = "done"
  /\ Len(stdout) = Len(PATTERNS) + 1

InWrites(path) == \E i \in 1..Len(writes) : writes[i] = path

IsPrefix(a, b) == Len(a) <= Len(b) /\ SubSeq(b, 1, Len(a)) = a

\* every template of the file has put its replacement in the content on disk
AllApplied(i) ==
  \A tpl \in PATTERNS[i].templates :
    \E n \in 1..Len(disk[PATTERNS[i].path]) :
      /\ disk[PATTERNS[i].path][n].ctx = tpl.ctx
      /\ IsPrefix(replacements[tpl.dst], disk[PATTERNS[i].path][n].val)

\* C6: in a run that is not a dry run, a tracked file is written only once
\* all of its templates have matched; when a template fails (NoMatch) the
\* files before the failing one have been overwritten, and the failing
\* file, the files after it and the change log keep their original
\* content.
C6_AbortKeepsLaterFiles ==
  ~dry_run =>
    /\ \A i \in 1..Len(PATTERNS) : InWrites(PATTERNS[i].path) => AllApplied(i)
    /\ (pc = "error" /\ error.at = "bump_version") =>
         /\ error.exc = "NoMatch"
         /\ \A i \in 1..Len(PATTERNS) :
              IF i < file_idx
                THEN writes[i] = PATTERNS[i].path
                ELSE /\ ~InWrites(PATTERNS[i].path)
                     /\ disk[PATTERNS[i].path] = disk0[PATTERNS[i].path]
         /\ Len(writes) = file_idx - 1
         /\ disk[CHANGES_PATH] = disk0[CHANGES_PATH]

C6_Witness ==
  /\ ~dry_run
  /\ pc = "error" /\ error.at = "bump_version"
  /\ file_idx = 3
  /\ remaining # PATTERNS[3].templates
  /\ disk[VERSION_PY_PATH] # disk0[VERSION_PY_PATH]
  /\ disk["action.yml"] # disk0["action.yml"]

AnchorMissing == \A i \in 1..Len(disk0[CHANGES_PATH]) : disk0[CHANGES_PATH][i] # before_unreleased

\* C7 as stated: with the anchor missing from the change log, a run that
\* has ended has failed and has written no file.
C7_Original ==
  (AnchorMissing /\ pc \in {"done", "error"}) => (pc = "error" /\ writes = <<>>)

\* C7: with the anchor missing from the change log a run never succeeds
\* and never writes the change log; a run that is not a dry run and gets
\* as far as the change log fails there with every tracked file already
\* overwritten, a dry run writes nothing.
C7_ChangelogNotWritten ==
  AnchorMissing =>
    /\ pc # "done"
    /\ ~InWrites(CHANGES_PATH)
    /\ disk[CHANGES_PATH] = disk0[CHANGES_PATH]
    /\ (pc = "error" /\ error.at = "patch_changelog") =>
         /\ error.exc = "ValueError"
         /\ writes = IF dry_run THEN <<>> ELSE [i \in 1..Len(PATTERNS) |-> PATTERNS[i].path]

C7_Witness ==
  /\ AnchorMissing
  /\ disk0[CHANGES_PATH] # <<>>
  /\ pc = "error" /\ error.at = "patch_changelog"
  /\ Len(writes) = Len(PATTERNS)
  /\ disk[VERSION_PY_PATH] # disk0[VERSION_PY_PATH]

\* the template has just been applied by this step
Applied(tpl) ==
  /\ pc = "apply_templates"
  /\ tpl \in remaining
  /\ remaining' = remaining \ {tpl}

\* C8 as stated: a template is applied only where its regex matches the
\* content exactly once.
C8_Original ==
  [][\A tpl \in remaining :
       Applied(tpl) => MatchCount(tpl, patterns[tpl.src], content) = 1]_vars

\* C8: a template whose regex matches the content nowhere aborts the run
\* with NoMatch; a template is applied only where its regex matches at
\* least once, and then the first match alone is rewritten, every other
\* line (further matches included) staying as it was.
C8_FirstMatchRewritten ==
  [][/\ \A tpl \in remaining :
          Applied(tpl) =>
            \E i \in 1..Len(content) :
              /\ LineMatches(tpl, patterns[tpl.src], content[i])
              /\ \A j \in 1..(i - 1) : ~LineMatches(tpl, patterns[tpl.src], content[j])
              /\ Len(content') = Len(content)
              /\ \A k \in 1..Len(content) : k # i => content'[k] = content[k]
              /\ content'[i].ctx = content[i].ctx
              /\ IsPrefix(replacements[tpl.dst], content'[i].val)
              /\ Len(content'[i].val)
                   = Len(content[i].val) - Len(patterns[tpl.src]) + Len(replacements[tpl.dst])
     /\ (pc = "apply_templates" /\ pc' = "error") =>
          \E tpl \in remaining : MatchCount(tpl, patterns[tpl.src], content) = 0
     /\ (pc = "apply_templates" /\ remaining # {}
           /\ \A tpl \in remaining : MatchCount(tpl, patterns[tpl.src], content) = 0) =>
          pc' = "error"]_vars

C8_Witness ==
  /\ pc = "apply_templates"
  /\ \E tpl \in PATTERNS[file_idx].templates \ remaining :
       \E i, j \in 1..Len(content) :
         /\ i < j
         /\ content[i].ctx = tpl.ctx /\ content[j].ctx = tpl.ctx
         /\ content[i].val = replacements[tpl.dst]
         /\ content[j].val # replacements[tpl.dst]
         /\ content[j] = disk0[PATTERNS[file_idx].path][j]

ReplacementsComputed ==
  /\ old_version # NoVersion /\ new_version # NoVersion /\ next_version # NoVersion
  /\ DictHas(milestone_numbers, new_version) /\ DictHas(milestone_numbers, next_version)
  /\ patterns # NoDict /\ replacements # NoReplacements

\* C9: in a run that is not a dry run no file is written before the
\* replacements have been computed, the change log is written only after
\* every tracked file, and a failure while the replacements are computed
\* (a new version without a milestone entry or without a later milestone
\* included) leaves every file unchanged.
C9_ComputeThenRewriteThenPatch ==
  ~dry_run =>
    /\ writes # <<>> => ReplacementsComputed
    /\ InWrites(CHANGES_PATH) =>
         writes = [i \in 1..Len(PATTERNS) |-> PATTERNS[i].path] \o <<CHANGES_PATH>>
    /\ \A i \in 1..Len(writes) : i <= Len(PATTERNS) => writes[i] = PATTERNS[i].path
    /\ (pc = "error" /\ error.at \in {"get_current_version", "get_next_version",
                                      "get_milestone_numbers", "get_next_milestone_version",
                                      "get_replacements"}) =>
         (disk = disk0 /\ writes = <<>>)
    /\ (disk # disk0) => writes # <<>>

C9_Witness ==
  /\ ~dry_run
  /\ pc = "error"
  /\ error = [exc |-> "KeyError", at |-> "get_replacements"]
  /\ next_version # NoVersion
  /\ disk = disk0

\* C10: after a successful run that is not a dry run the change log is the
\* original content with one block inserted right after the first anchor:
\* the empty Added and Fixed subsections and a dated heading for
\* next_version, the next milestone version get_replacements computed,
\* underlined with "=" of the heading's length.
C10_HeadingForNextVersion ==
  (pc = "done" /\ ~dry_run) =>
    \E today \in Dates, n \in 1..Len(disk0[CHANGES_PATH]) :
      /\ disk0[CHANGES_PATH][n] = before_unreleased
      /\ \A j \in 1..(n - 1) : disk0[CHANGES_PATH][j] # before_unreleased
      /\ SubSeq(disk[CHANGES_PATH], 1, n) = SubSeq(disk0[CHANGES_PATH], 1, n)
      /\ SubSeq(disk[CHANGES_PATH], n + 1, n + 10)
           = << Line("Added", <<>>), Line("-----", <<>>), Line("", <<>>),
                Line("Fixed", <<>>), Line("-----", <<>>), Line("", <<>>), Line("", <<>>),
                Line("title", VersionStr(next_version) \o <<"_ - ", today>>),
                Line("underline",
                     [i \in 1..TextLen(VersionStr(next_version) \o <<"_ - ", today>>) |-> "="]),
                Line("", <<>>) >>
      /\ SubSeq(disk[CHANGES_PATH], n + 11, Len(disk[CHANGES_PATH]))
           = SubSeq(disk0[CHANGES_PATH], n + 1, Len(disk0[CHANGES_PATH]))

====
